---- MODULE Spec2Model ----
(***************************************************************************)
(* Model of download_wallpaper.py: the image-fitting transform of          *)
(* process_image (scale in "cover" mode, centre, crop twice, save twice),  *)
(* the source selection of main and the two tool invocations of            *)
(* apply_wallpaper.                                                        *)
(*                                                                         *)
(* Python floats are IEEE-754 doubles.  scale_factor is the double nearest *)
(* to a quotient of two integers, and int(original * scale_factor)         *)
(* truncates the double nearest to the product.  Both roundings are        *)
(* computed exactly below with integer arithmetic only (long division for  *)
(* the 53-bit significand), so that a product that lands one ulp below an  *)
(* integer truncates to the integer below it, as it does in the program.   *)
(*                                                                         *)
(* Not modelled: the colour-mode conversion (it never changes image.size), *)
(* the contents of HTTP traffic, and an asynchronous KeyboardInterrupt.    *)
(***************************************************************************)
EXTENDS Integers, Sequences, FiniteSets, TLC

VARIABLES pc, cfg, image_data, image, loc, files, result, calls, ret

vars == <<pc, cfg, image_data, image, loc, files, result, calls, ret>>

(***************************************************************************)
(* Bounds of the input domains.                                            *)
(***************************************************************************)
MaxSrcW == 2
MaxSrcH == 11
MaxW == 2
MaxH == 6
MaxGap == 3
MainMaxDim == 1

(***************************************************************************)
(* Arithmetic helpers.                                                     *)
(***************************************************************************)
Max(a, b) == IF a >= b THEN a ELSE b

Abs(a) == IF a < 0 THEN 0 - a ELSE a

RECURSIVE Pow2(_)
Pow2(n) == IF n <= 0 THEN 1 ELSE 2 * Pow2(n - 1)

RECURSIVE ILog2(_, _)
\* largest n >= n0 with 2^n <= k   (k >= 2^n0)
ILog2(k, n) == IF Pow2(n + 1) <= k THEN ILog2(k, n + 1) ELSE n

RECURSIVE ExpUp(_, _, _)
ExpUp(A, B, p) == IF A >= 2 * B * Pow2(p) THEN ExpUp(A, B, p + 1) ELSE p

RECURSIVE ExpDown(_, _, _)
ExpDown(A, B, q) == IF A * Pow2(q) < B THEN ExpDown(A, B, q + 1) ELSE q

\* the binary exponent p of A/B:  2^p <= A/B < 2^(p+1)      (A, B > 0)
BinExp(A, B) == IF A >= B THEN ExpUp(A, B, 0) ELSE 0 - ExpDown(A, B, 0)

RECURSIVE DivRem(_, _, _)
\* remainder of the long division after i more quotient bits
DivRem(r, den, i) == IF i = 0 THEN r ELSE DivRem((2 * r) % den, den, i - 1)

\* A/B = (num/den) * 2^p with 1 <= num/den < 2
DivNum(A, B) == IF BinExp(A, B) >= 0 THEN A ELSE A * Pow2(0 - BinExp(A, B))
DivDen(A, B) == IF BinExp(A, B) >= 0 THEN B * Pow2(BinExp(A, B)) ELSE B

\* The double nearest to A/B is A/B + (RoundErr/DivDen) * 2^(p-52): the
\* leading bit and 52 further bits are kept, the remainder r decides the
\* rounding (a tie needs a 54-bit quotient and cannot occur here).
RoundErr(A, B) ==
    LET den == DivDen(A, B)
        r   == DivRem(DivNum(A, B) - den, den, 52)
    IN  IF 2 * r > den THEN den - r ELSE 0 - r

\* int(c * (A / B)) for integers c, A, B > 0, as Python computes it:
\* A / B rounded to a double, the product rounded to a double, truncated.
IntMulPos(c, A, B) ==
    IF (c * A) % B # 0
    THEN (c * A) \div B
    ELSE LET k   == (c * A) \div B
             e   == RoundErr(A, B)
             n   == ILog2(k, 0)
             f   == IF k = Pow2(n) THEN 4 ELSE 2
         IN  IF e >= 0 THEN k
             ELSE IF f * c * (0 - e) <= DivDen(A, B) * Pow2(n - BinExp(A, B))
                  THEN k
                  ELSE k - 1

\* int(c * s) for c >= 0 and the double s nearest to A/B, B > 0, any sign of A
IntMul(c, A, B) ==
    IF c = 0 \/ A = 0 THEN 0
    ELSE IF A > 0 THEN IntMulPos(c, A, B)
    ELSE 0 - IntMulPos(c, 0 - A, B)

\* round(c * (A / B)) for integers c, A, B > 0 (Python 3: ties to even).
\* The program never calls round; this is the size the resize would get if
\* it rounded, used to state the rounding property of the resize.
RoundMulPos(c, A, B) ==
    IF (2 * c * A) % B # 0
    THEN (2 * c * A + B) \div (2 * B)
    ELSE LET T2 == (2 * c * A) \div B
             m  == T2 \div 2
             e  == RoundErr(A, B)
             n  == ILog2(T2, 0) - 1
             f  == IF e < 0 /\ T2 = Pow2(n + 1) THEN 4 ELSE 2
             back == f * c * Abs(e) <= DivDen(A, B) * Pow2(n - BinExp(A, B))
         IN  IF T2 % 2 = 0 THEN m
             ELSE IF back THEN (IF m % 2 = 0 THEN m ELSE m + 1)
             ELSE IF e > 0 THEN m + 1 ELSE m

RoundMul(c, A, B) ==
    IF c = 0 \/ A = 0 THEN 0
    ELSE IF A > 0 THEN RoundMulPos(c, A, B)
    ELSE 0 - RoundMulPos(c, 0 - A, B)

(***************************************************************************)
(* Values.                                                                 *)
(***************************************************************************)
None == "None"

\* bytes handed to process_image: whether Image.open can decode them, and
\* the size of the decoded picture
Bytes(ok, w, h) == [kind |-> "bytes", decodable |-> ok, w |-> w, h |-> h]
NoData   == [kind |-> "None",  decodable |-> FALSE, w |-> 0, h |-> 0]
EmptyData == [kind |-> "empty", decodable |-> FALSE, w |-> 0, h |-> 0]

NoImage == [open |-> FALSE, w |-> 0, h |-> 0]

Box(l, t, r, b) == [left |-> l, top |-> t, right |-> r, bottom |-> b]
NoBox == Box(0, 0, 0, 0)

\* locals of process_image
NoLocals ==
    [required_width |-> 0, required_height |-> 0,
     scale_num |-> 0, scale_den |-> 1,
     new_width |-> 0, new_height |-> 0,
     planned |-> FALSE, resized |-> FALSE, cropped |-> FALSE,
     horizontal_offset |-> 0, vertical_offset |-> 0,
     upper_box |-> NoBox, lower_box |-> NoBox,
     upper_crop |-> <<0, 0>>, lower_crop |-> <<0, 0>>,
     error |-> "none"]

NoResult == [upper_file |-> "unset", lower_file |-> "unset"]

NoCalls == [pexels |-> 0, reddit |-> 0, local |-> 0, process |-> 0,
            apply |-> 0, tool |-> << >>, pexels_out |-> "none",
            applied |-> "unset"]

(***************************************************************************)
(* process_image, lines 225-345.                                           *)
(***************************************************************************)
\* line 284
RequiredWidth(upper_width, lower_width) == Max(upper_width, lower_width)

\* line 285
RequiredHeight(upper_height, offset_px, lower_height) ==
    upper_height + offset_px + lower_height

\* lines 289-293: scale_factor = max(required_width / original_width,
\* required_height / original_height).  Rounding to a double is monotone, so
\* the larger double is the double of the larger quotient; the result is
\* kept as that quotient <<numerator, denominator>>.
ScaleFactorMin(rw, ow, rh, oh) ==
    IF rw * oh >= rh * ow THEN <<rh, oh>> ELSE <<rw, ow>>

ScaleFactor(rw, ow, rh, oh) ==
    IF rw * oh >= rh * ow THEN <<rw, ow>> ELSE <<rh, oh>>

\* lines 295-296: int(original * scale_factor)
NewSize(original, scale) == IntMul(original, scale[1], scale[2])

\* line 298: scale_factor != 1.0 (a quotient of integers below 2^52 rounds
\* to 1.0 only when it is 1)
NeedsResize(scale) == scale[1] # scale[2]

\* line 300: Image.resize raises ValueError unless both sizes are >= 1
ResizeRaises(w, h) == w < 1 \/ h < 1

CenterOffsetNoHalving(current, required) == Max(0, current - required)

\* lines 305-306: max(0, (current - required) // 2), floor division
CenterOffset(current, required) == Max(0, (current - required) \div 2)

\* lines 311-314
UpperBox(ho, vo, upper_width, upper_height) ==
    Box(ho, vo, ho + upper_width, vo + upper_height)

LowerTopNoGap(vo, upper_height, offset_px) == vo + upper_height

\* line 320
LowerTop(vo, upper_height, offset_px) == vo + upper_height + offset_px

\* lines 319-322
LowerBox(ho, vo, upper_height, offset_px, lower_width, lower_height) ==
    Box(ho, LowerTop(vo, upper_height, offset_px),
        ho + lower_width,
        LowerTop(vo, upper_height, offset_px) + lower_height)

\* lines 316, 324: Image.crop raises ValueError when right < left or
\* bottom < top; a box that leaves the image is padded, not rejected
CropRaises(box) == box.right < box.left \/ box.bottom < box.top

\* size of the image Image.crop returns
CropSize(box) == <<box.right - box.left, box.bottom - box.top>>

\* lines 335-336: the JPEG encoder refuses an image with a zero side
EncodeRaises(crop) == crop[1] = 0 \/ crop[2] = 0

\* lines 335-336: what Image.save leaves at the path.  "open" fails before
\* the file is touched; a failure while writing removes a file the call
\* created and leaves a truncated one otherwise.
AfterSave(before, outcome) ==
    CASE outcome = "ok"    -> "fresh"
      [] outcome = "open"  -> before
      [] OTHER             -> IF before = "absent" THEN "absent" ELSE "broken"

\* lines 343-345: the except clause
Fail(why) ==
    /\ result' = [upper_file |-> None, lower_file |-> None]
    /\ loc' = [loc EXCEPT !.error = why]
    /\ pc' = "pi_done"

\* lines 253-279: decode, normalise the colour mode, read image.size
OpenImage ==
    /\ pc = "pi_open"
    /\ IF image_data.kind = "bytes" /\ image_data.decodable
       THEN /\ image' = [open |-> TRUE, w |-> image_data.w, h |-> image_data.h]
            /\ pc' = "pi_plan"
            /\ UNCHANGED <<loc, result>>
       ELSE /\ Fail("decode")
            /\ UNCHANGED image
    /\ UNCHANGED <<cfg, image_data, files, calls, ret>>

\* lines 284-296
ComputePlan ==
    /\ pc = "pi_plan"
    /\ IF image.w = 0 \/ image.h = 0
       THEN Fail("ZeroDivisionError")
       ELSE LET rw == RequiredWidth(cfg.upper_width, cfg.lower_width)
                rh == RequiredHeight(cfg.upper_height, cfg.offset_px,
                                     cfg.lower_height)
                sc == ScaleFactor(rw, image.w, rh, image.h)
            IN  /\ loc' = [loc EXCEPT !.required_width = rw,
                                      !.required_height = rh,
                                      !.scale_num = sc[1],
                                      !.scale_den = sc[2],
                                      !.new_width = NewSize(image.w, sc),
                                      !.new_height = NewSize(image.h, sc),
                                      !.planned = TRUE]
                /\ pc' = "pi_resize"
                /\ UNCHANGED result
    /\ UNCHANGED <<cfg, image_data, image, files, calls, ret>>

\* lines 298-302
Resize ==
    /\ pc = "pi_resize"
    /\ IF NeedsResize(<<loc.scale_num, loc.scale_den>>)
       THEN IF ResizeRaises(loc.new_width, loc.new_height)
            THEN /\ Fail("resize")
                 /\ UNCHANGED image
            ELSE /\ image' = [image EXCEPT !.w = loc.new_width,
                                           !.h = loc.new_height]
                 /\ loc' = [loc EXCEPT !.resized = TRUE]
                 /\ pc' = "pi_crop"
                 /\ UNCHANGED result
       ELSE /\ pc' = "pi_crop"
            /\ UNCHANGED <<image, loc, result>>
    /\ UNCHANGED <<cfg, image_data, files, calls, ret>>

\* lines 304-324
Crop ==
    /\ pc = "pi_crop"
    /\ LET ho == CenterOffset(image.w, loc.required_width)
           vo == CenterOffset(image.h, loc.required_height)
           ub == UpperBox(ho, vo, cfg.upper_width, cfg.upper_height)
           lb == LowerBox(ho, vo, cfg.upper_height, cfg.offset_px,
                          cfg.lower_width, cfg.lower_height)
       IN  IF CropRaises(ub) \/ CropRaises(lb)
           THEN Fail("crop")
           ELSE /\ loc' = [loc EXCEPT !.horizontal_offset = ho,
                                      !.vertical_offset = vo,
                                      !.upper_box = ub,
                                      !.lower_box = lb,
                                      !.upper_crop = CropSize(ub),
                                      !.lower_crop = CropSize(lb),
                                      !.cropped = TRUE]
                /\ pc' = "pi_mkdir"
                /\ UNCHANGED result
    /\ UNCHANGED <<cfg, image_data, image, files, calls, ret>>

\* lines 327-329: output_path.mkdir may fail with an OSError
MakeOutputDir ==
    /\ pc = "pi_mkdir"
    /\ \E ok \in BOOLEAN :
         IF ok THEN pc' = "pi_save_upper" /\ UNCHANGED <<loc, result>>
               ELSE Fail("mkdir")
    /\ UNCHANGED <<cfg, image_data, image, files, calls, ret>>

SaveOutcomes == {"ok", "open", "write"}

\* line 335
SaveUpper ==
    /\ pc = "pi_save_upper"
    /\ \E io \in SaveOutcomes :
         LET outcome == IF io = "ok" /\ EncodeRaises(loc.upper_crop)
                        THEN "write" ELSE io
         IN  /\ files' = [files EXCEPT !.upper = AfterSave(@, outcome)]
             /\ IF outcome = "ok"
                THEN pc' = "pi_save_lower" /\ UNCHANGED <<loc, result>>
                ELSE Fail("save_upper")
    /\ UNCHANGED <<cfg, image_data, image, calls, ret>>

\* lines 336-341
SaveLower ==
    /\ pc = "pi_save_lower"
    /\ \E io \in SaveOutcomes :
         LET outcome == IF io = "ok" /\ EncodeRaises(loc.lower_crop)
                        THEN "write" ELSE io
         IN  /\ files' = [files EXCEPT !.lower = AfterSave(@, outcome)]
             /\ IF outcome = "ok"
                THEN /\ result' = [upper_file |-> "wallpaper_upper.jpg",
                                   lower_file |-> "wallpaper_lower.jpg"]
                     /\ pc' = "pi_done"
                     /\ UNCHANGED loc
                ELSE Fail("save_lower")
    /\ UNCHANGED <<cfg, image_data, image, calls, ret>>

(***************************************************************************)
(* process_image on its own: every configuration and picture size of the   *)
(* bounded domain, plus the boundary scenario of the default config.       *)
(***************************************************************************)
Config(uw, uh, lw, lh, off) ==
    [config_ok |-> TRUE, test_mode |-> FALSE, test_image |-> FALSE,
     source_mode |-> "pexels", pexels_api_key |-> FALSE,
     upper_width |-> uw, upper_height |-> uh,
     lower_width |-> lw, lower_height |-> lh, offset_px |-> off]

\* defaults of lines 430-434 and a 3840x2160 picture
BoundaryConfig == Config(1920, 1080, 1920, 515, 100)
BoundaryImage == Bytes(TRUE, 3840, 2160)

\* a 4:3 photograph of 4000x3000
TwelveMegapixel == Bytes(TRUE, 4000, 3000)

DirStates == {"absent", "stale"}

FitInputs ==
    {<<c, d>> : c \in {Config(uw, uh, lw, lh, off) :
                          uw \in 0..MaxW, uh \in 0..MaxH,
                          lw \in 0..MaxW, lh \in 0..MaxH,
                          off \in (0 - 1)..MaxGap},
                d \in {Bytes(TRUE, w, h) : w \in 0..MaxSrcW, h \in 0..MaxSrcH}}
      \cup {<<BoundaryConfig, BoundaryImage>>,
            <<BoundaryConfig, TwelveMegapixel>>,
            <<BoundaryConfig, Bytes(FALSE, 0, 0)>>}

InitFit ==
    /\ pc = "pi_open"
    /\ \E inp \in FitInputs : cfg = inp[1] /\ image_data = inp[2]
    /\ \E d \in DirStates :
         files = [exe |-> "absent", upper |-> d, lower |-> d]
    /\ image = NoImage
    /\ loc = NoLocals
    /\ result = NoResult
    /\ calls = NoCalls
    /\ ret = -1

NextFit ==
    \/ OpenImage
    \/ ComputePlan
    \/ Resize
    \/ Crop
    \/ MakeOutputDir
    \/ SaveUpper
    \/ SaveLower

SpecFit == InitFit /\ [][NextFit]_vars

(***************************************************************************)
(* apply_wallpaper, lines 348-410.                                         *)
(***************************************************************************)
\* os.path.exists
Exists(f) == f # "absent"

\* lines 360-370: the three existence checks
PathsExist(fs) == Exists(fs.exe) /\ Exists(fs.upper) /\ Exists(fs.lower)

ToolFailedExitCodeOnly(outcome) == outcome = "nonzero"

\* lines 382, 398: returncode != 0, or subprocess.run raised (lines 405-410)
ToolFailed(outcome) == outcome # "exit0"

ToolOutcomes == {"exit0", "nonzero", "timeout", "exception"}

Invocation(monitor, file, outcome) ==
    [monitor |-> monitor, file |-> file, outcome |-> outcome]

\* lines 360-370
CheckPaths ==
    /\ pc = "aw_check"
    /\ IF PathsExist(files)
       THEN pc' = "aw_upper" /\ UNCHANGED calls
       ELSE pc' = "aw_done" /\ calls' = [calls EXCEPT !.applied = FALSE]
    /\ UNCHANGED <<cfg, image_data, image, loc, files, result, ret>>

\* lines 373-387: monitor 0, the upper file
ApplyUpper ==
    /\ pc = "aw_upper"
    /\ \E out \in ToolOutcomes :
         /\ calls' = [calls EXCEPT
                        !.tool = Append(@, Invocation(0, "upper", out)),
                        !.applied = IF ToolFailed(out) THEN FALSE ELSE @]
         /\ pc' = IF ToolFailed(out) THEN "aw_done" ELSE "aw_lower"
    /\ UNCHANGED <<cfg, image_data, image, loc, files, result, ret>>

\* lines 389-403: monitor 1, the lower file
ApplyLower ==
    /\ pc = "aw_lower"
    /\ \E out \in ToolOutcomes :
         /\ calls' = [calls EXCEPT
                        !.tool = Append(@, Invocation(1, "lower", out)),
                        !.applied = ~ToolFailed(out)]
         /\ pc' = "aw_done"
    /\ UNCHANGED <<cfg, image_data, image, loc, files, result, ret>>

(***************************************************************************)
(* apply_wallpaper on its own: any combination of present and missing      *)
(* paths.                                                                  *)
(***************************************************************************)
FileStates == {"absent", "stale", "fresh", "broken"}

InitApply ==
    /\ pc = "aw_check"
    /\ cfg = Config(1, 1, 1, 1, 0)
    /\ \E e \in {"absent", "present"}, u \in FileStates, l \in FileStates :
         files = [exe |-> e, upper |-> u, lower |-> l]
    /\ image_data = NoData
    /\ image = NoImage
    /\ loc = NoLocals
    /\ result = [upper_file |-> "wallpaper_upper.jpg",
                 lower_file |-> "wallpaper_lower.jpg"]
    /\ calls = [NoCalls EXCEPT !.apply = 1]
    /\ ret = -1

NextApply ==
    \/ CheckPaths
    \/ ApplyUpper
    \/ ApplyLower

SpecApply == InitApply /\ [][NextApply]_vars

(***************************************************************************)
(* main, lines 413-502.                                                    *)
(***************************************************************************)
\* "not image_data": None and b"" are both false
NoImageData(d) == d.kind # "bytes"

ProcessFailedUnchecked(r) == FALSE

\* line 484: not upper_file or not lower_file
ProcessFailed(r) == r.upper_file = None \/ r.lower_file = None

\* line 460: the Pexels attempt is made only with an API key
PexelsAttempted(c) == c.pexels_api_key

NeedsFallbackAlways(d) == TRUE

\* line 465: fall back to Reddit
NeedsFallback(d) == NoImageData(d)

\* pictures a provider or the local file can deliver
Pictures(decodables) ==
    {Bytes(ok, w, h) : ok \in decodables, w \in 1..MainMaxDim,
                       h \in 1..MainMaxDim}

\* download_wallpaper_from_pexels, lines 34-102: bytes (response.content,
\* possibly empty or not an image), None, or an exception that is not a
\* RequestException (malformed JSON fields) and leaves the function
PexelsResults == Pictures(BOOLEAN) \cup {NoData, EmptyData}

\* download_wallpaper_from_reddit, lines 105-190: only bytes that Image.open
\* accepted are returned, every exception is swallowed
RedditResults == Pictures({TRUE}) \cup {NoData}

\* load_local_image, lines 193-222
LocalResults == Pictures(BOOLEAN) \cup {NoData, EmptyData}

Return(code) == ret' = code /\ pc' = "m_done"

\* lines 417-434: load_config raises when config.json is missing or invalid,
\* caught at line 498
LoadConfig ==
    /\ pc = "m_start"
    /\ IF cfg.config_ok THEN pc' = "m_source" /\ UNCHANGED ret
                        ELSE Return(1)
    /\ UNCHANGED <<cfg, image_data, image, loc, files, result, calls>>

\* lines 439-450
TestMode ==
    /\ pc = "m_source"
    /\ cfg.test_mode
    /\ IF ~cfg.test_image
       THEN /\ Return(1)
            /\ UNCHANGED <<image_data, calls>>
       ELSE /\ \E d \in LocalResults : image_data' = d
            /\ calls' = [calls EXCEPT !.local = @ + 1]
            /\ pc' = "m_check"
            /\ UNCHANGED ret
    /\ UNCHANGED <<cfg, image, loc, files, result>>

\* lines 452-455
RedditMode ==
    /\ pc = "m_source"
    /\ ~cfg.test_mode
    /\ cfg.source_mode = "reddit"
    /\ \E d \in RedditResults : image_data' = d
    /\ calls' = [calls EXCEPT !.reddit = @ + 1]
    /\ pc' = "m_check"
    /\ UNCHANGED <<cfg, image, loc, files, result, ret>>

\* lines 456-462
PexelsMode ==
    /\ pc = "m_source"
    /\ ~cfg.test_mode
    /\ cfg.source_mode # "reddit"
    /\ IF PexelsAttempted(cfg)
       THEN \E raised \in BOOLEAN :
              IF raised
              THEN /\ calls' = [calls EXCEPT !.pexels = @ + 1,
                                             !.pexels_out = "raised"]
                   /\ Return(1)
                   /\ UNCHANGED image_data
              ELSE /\ \E d \in PexelsResults :
                        /\ image_data' = d
                        /\ calls' = [calls EXCEPT
                                       !.pexels = @ + 1,
                                       !.pexels_out = IF NoImageData(d)
                                                      THEN "nodata"
                                                      ELSE "data"]
                   /\ pc' = "m_fallback"
                   /\ UNCHANGED ret
       ELSE /\ image_data' = NoData
            /\ pc' = "m_fallback"
            /\ UNCHANGED <<calls, ret>>
    /\ UNCHANGED <<cfg, image, loc, files, result>>

\* lines 464-467
RedditFallback ==
    /\ pc = "m_fallback"
    /\ IF NeedsFallback(image_data)
       THEN /\ \E d \in RedditResults : image_data' = d
            /\ calls' = [calls EXCEPT !.reddit = @ + 1]
       ELSE UNCHANGED <<image_data, calls>>
    /\ pc' = "m_check"
    /\ UNCHANGED <<cfg, image, loc, files, result, ret>>

\* lines 469-482
CheckImage ==
    /\ pc = "m_check"
    /\ IF NoImageData(image_data)
       THEN /\ Return(1)
            /\ UNCHANGED calls
       ELSE /\ pc' = "pi_open"
            /\ calls' = [calls EXCEPT !.process = @ + 1]
            /\ UNCHANGED ret
    /\ UNCHANGED <<cfg, image_data, image, loc, files, result>>

\* lines 484-489
CheckProcessed ==
    /\ pc = "pi_done"
    /\ IF ProcessFailed(result)
       THEN /\ Return(1)
            /\ UNCHANGED calls
       ELSE /\ pc' = "aw_check"
            /\ calls' = [calls EXCEPT !.apply = @ + 1]
            /\ UNCHANGED ret
    /\ UNCHANGED <<cfg, image_data, image, loc, files, result>>

\* lines 489-493
MainReturn ==
    /\ pc = "aw_done"
    /\ Return(IF calls.applied = TRUE THEN 0 ELSE 1)
    /\ UNCHANGED <<cfg, image_data, image, loc, files, result, calls>>

MainConfigs ==
    {[config_ok |-> ok, test_mode |-> tm, test_image |-> ti,
      source_mode |-> sm, pexels_api_key |-> key,
      upper_width |-> uw, upper_height |-> uh,
      lower_width |-> lw, lower_height |-> lh, offset_px |-> off] :
        ok \in BOOLEAN, tm \in BOOLEAN, ti \in BOOLEAN,
        sm \in {"pexels", "reddit", "other"}, key \in BOOLEAN,
        uw \in 0..MainMaxDim, uh \in 0..MainMaxDim,
        lw \in 0..MainMaxDim, lh \in 0..MainMaxDim,
        off \in 0..MainMaxDim}

Init ==
    /\ pc = "m_start"
    /\ cfg \in MainConfigs
    /\ \E e \in {"absent", "present"}, d \in DirStates :
         files = [exe |-> e, upper |-> d, lower |-> d]
    /\ image_data = NoData
    /\ image = NoImage
    /\ loc = NoLocals
    /\ result = NoResult
    /\ calls = NoCalls
    /\ ret = -1

Next ==
    \/ LoadConfig
    \/ TestMode
    \/ RedditMode
    \/ PexelsMode
    \/ RedditFallback
    \/ CheckImage
    \/ OpenImage
    \/ ComputePlan
    \/ Resize
    \/ Crop
    \/ MakeOutputDir
    \/ SaveUpper
    \/ SaveLower
    \/ CheckProcessed
    \/ CheckPaths
    \/ ApplyUpper
    \/ ApplyLower
    \/ MainReturn

Spec == Init /\ [][Next]_vars

(***************************************************************************)
(* Properties.                                                             *)
(***************************************************************************)
PositiveRectangles ==
    /\ cfg.upper_width > 0 /\ cfg.upper_height > 0
    /\ cfg.lower_width > 0 /\ cfg.lower_height > 0

PositiveSource == image_data.kind = "bytes" /\ image_data.w > 0 /\ image_data.h > 0

ValidInput == PositiveRectangles /\ PositiveSource /\ cfg.offset_px >= 0

Inside(box) ==
    /\ 0 <= box.left /\ 0 <= box.top
    /\ box.right <= image.w /\ box.bottom <= image.h

ExactCrops ==
    /\ loc.upper_crop = <<cfg.upper_width, cfg.upper_height>>
    /\ loc.lower_crop = <<cfg.lower_width, cfg.lower_height>>

ReturnedPaths == result.upper_file \notin {None, "unset"}
                   /\ result.lower_file \notin {None, "unset"}

\* C1: for a positive source, positive rectangles and a gap >= 0, both crop
\* rectangles lie inside the scaled image and the crops have exactly the
\* requested sizes.
C1_CropsInsideScaledImage ==
    (loc.cropped /\ ValidInput) =>
        /\ Inside(loc.upper_box)
        /\ Inside(loc.lower_box)
        /\ ExactCrops

\* C2: a call with a non-positive dimension or a negative gap ends in the
\* error outcome (None, None) and never returns two paths.
C2_InvalidInputFails ==
    (pc = "pi_done" /\ ~ValidInput) =>
        (result.upper_file = None /\ result.lower_file = None)

\* C4: after a failed run on a valid input the output directory never holds an upper file
\* written by this run next to a lower file this run did not write.
C4_NoPartialArtifacts ==
    (pc = "pi_done" /\ ValidInput /\ result.upper_file = None) =>
        ~(files.upper = "fresh" /\ files.lower # "fresh")

AtBoundary == cfg = BoundaryConfig /\ image_data = BoundaryImage

\* C5 as stated: source 3840x2160, upper 1920x1080, lower 1920x515, gap 100
\* give footprint 1920x1695, a scaled image of about 3014x1695, offsets
\* (547, 0), upper crop (547,0)-(2467,1080), lower crop (547,1180)-(2467,1695).
C5_BoundaryScenarioAsStated ==
    (AtBoundary /\ loc.cropped) =>
        /\ loc.required_width = 1920 /\ loc.required_height = 1695
        /\ image.w \in 3013..3015 /\ image.h = 1695
        /\ loc.horizontal_offset = 547 /\ loc.vertical_offset = 0
        /\ loc.upper_box = Box(547, 0, 2467, 1080)
        /\ loc.lower_box = Box(547, 1180, 2467, 1695)

\* C5 amended: the same input gives footprint 1920x1695, a scaled image of
\* 3013x1695, offsets (546, 0), upper crop (546,0)-(2466,1080) and lower
\* crop (546,1180)-(2466,1695).
C5_BoundaryScenario ==
    (AtBoundary /\ loc.cropped) =>
        /\ loc.required_width = 1920 /\ loc.required_height = 1695
        /\ image.w = 3013 /\ image.h = 1695
        /\ loc.horizontal_offset = 546 /\ loc.vertical_offset = 0
        /\ loc.upper_box = Box(546, 0, 2466, 1080)
        /\ loc.lower_box = Box(546, 1180, 2466, 1695)

C5_Witness == AtBoundary /\ loc.cropped /\ loc.resized /\ pc = "pi_done"
                /\ ReturnedPaths

SourceCovers ==
    /\ image_data.w >= loc.required_width
    /\ image_data.h >= loc.required_height

\* C6: with positive rectangles, a source at least as large as the footprint
\* gets a scale factor <= 1.0; a source smaller in either axis gets a scale
\* factor > 1.0, is resized, and both crops are produced without a failure.
C6_ScaleDirection ==
    (loc.planned /\ PositiveRectangles /\ PositiveSource) =>
        /\ SourceCovers => loc.scale_num <= loc.scale_den
        /\ ~SourceCovers =>
             /\ loc.scale_num > loc.scale_den
             /\ loc.error \notin {"resize", "crop"}
             /\ pc # "pi_resize" => loc.resized
             /\ pc \notin {"pi_resize", "pi_crop"} => (loc.cropped /\ ExactCrops)

C6_Witness ==
    /\ loc.planned /\ PositiveRectangles /\ PositiveSource /\ ~SourceCovers
    /\ loc.resized /\ loc.cropped /\ pc = "pi_done" /\ ReturnedPaths

\* C7: for a valid input the source is resized to exactly
\* (round(width * scale), round(height * scale)) whenever scale != 1.0 and
\* keeps its size only when scale = 1.0.
C7_ResizeRounds ==
    (loc.planned /\ ValidInput /\ pc # "pi_resize" /\ loc.error # "resize") =>
        IF loc.scale_num # loc.scale_den
        THEN /\ loc.resized
             /\ image.w = RoundMul(image_data.w, loc.scale_num, loc.scale_den)
             /\ image.h = RoundMul(image_data.h, loc.scale_num, loc.scale_den)
        ELSE /\ ~loc.resized
             /\ image.w = image_data.w /\ image.h = image_data.h

\* C8: for a gap >= 0 both crops share the left edge, the lower crop starts
\* Hu + G below the top of the upper crop, the crops do not overlap, and
\* the span from upper top to lower bottom is Hu + G + Hl.
C8_SharedOffsetStackedCrops ==
    (loc.cropped /\ cfg.offset_px >= 0) =>
        /\ loc.upper_box.left = loc.lower_box.left
        /\ loc.upper_box.left = loc.horizontal_offset
        /\ loc.lower_box.top =
             loc.upper_box.top + cfg.upper_height + cfg.offset_px
        /\ loc.lower_box.top >= loc.upper_box.bottom
        /\ loc.lower_box.bottom - loc.upper_box.top =
             cfg.upper_height + cfg.offset_px + cfg.lower_height

C8_Witness ==
    /\ loc.cropped /\ ValidInput /\ cfg.offset_px > 0
    /\ loc.horizontal_offset > 0 /\ cfg.upper_width # cfg.lower_width
    /\ pc = "pi_done" /\ ReturnedPaths

(***************************************************************************)
(* Properties of main and apply_wallpaper.                                 *)
(***************************************************************************)
\* C3: apply_wallpaper and the external tool run only after process_image
\* returned both paths; when process_image fails at any step, also while
\* saving the lower crop after the upper one was saved, nothing is
\* forwarded and main returns 1.
C3_ForwardOnlyAfterBothPaths ==
    /\ (calls.apply > 0 \/ Len(calls.tool) > 0 \/ pc \in
          {"aw_check", "aw_upper", "aw_lower", "aw_done"}) => ReturnedPaths
    /\ (pc = "m_done" /\ result.upper_file = None) =>
          /\ ret = 1
          /\ calls.apply = 0
          /\ calls.tool = << >>

C3_Witness ==
    /\ pc = "m_done" /\ ret = 1
    /\ loc.error = "save_lower" /\ files.upper = "fresh"
    /\ result.upper_file = None /\ calls.apply = 0

SelectionDone == cfg.config_ok /\ pc \notin {"m_start", "m_source", "m_fallback"}

\* C9: in test mode no provider is contacted; in mode "reddit" Pexels is
\* never called; otherwise Pexels is called at most once and only with an
\* API key, and Reddit is called exactly when Pexels was skipped or returned
\* no image data; process_image is reached only with non-empty image data,
\* otherwise main returns 1.
C9_SourceSelectionOrder ==
    /\ cfg.test_mode => (calls.pexels = 0 /\ calls.reddit = 0)
    /\ cfg.source_mode = "reddit" => calls.pexels = 0
    /\ calls.pexels <= 1
    /\ calls.pexels = 1 => cfg.pexels_api_key
    /\ calls.reddit <= 1
    /\ (SelectionDone /\ ~cfg.test_mode /\ cfg.source_mode # "reddit") =>
          (calls.reddit = 1 <=>
              (calls.pexels = 0 \/ calls.pexels_out = "nodata"))
    /\ calls.process > 0 => ~NoImageData(image_data)
    /\ (pc = "m_done" /\ SelectionDone /\ NoImageData(image_data)) =>
          (ret = 1 /\ calls.process = 0)

C9_Witness ==
    /\ pc = "m_done" /\ cfg.source_mode = "other"
    /\ calls.pexels = 1 /\ calls.pexels_out = "nodata"
    /\ calls.reddit = 1 /\ calls.process = 1

\* C10: monitor 1 (lower file) is invoked only after monitor 0 (upper file)
\* returned exit code 0; the tool is invoked only if the executable and
\* both files exist; the result is True exactly when both invocations
\* returned 0 and is False, never an exception, on a non-zero exit code, a
\* timeout or any other exception.
C10_ApplyOrderAndResult ==
    /\ Len(calls.tool) <= 2
    /\ Len(calls.tool) >= 1 =>
          /\ calls.tool[1].monitor = 0 /\ calls.tool[1].file = "upper"
          /\ PathsExist(files)
    /\ Len(calls.tool) = 2 =>
          /\ calls.tool[2].monitor = 1 /\ calls.tool[2].file = "lower"
          /\ calls.tool[1].outcome = "exit0"
    /\ pc = "aw_done" =>
          /\ calls.applied \in BOOLEAN
          /\ calls.applied <=>
                /\ Len(calls.tool) = 2
                /\ calls.tool[1].outcome = "exit0"
                /\ calls.tool[2].outcome = "exit0"

C10_Witness ==
    /\ pc = "aw_done" /\ Len(calls.tool) = 2
    /\ calls.tool[2].outcome = "timeout" /\ calls.applied = FALSE

====
